---- MODULE Spec2Model ----
(***************************************************************************)
(* AprilTag allocation (scripts/allocate_tags.py) and sample               *)
(* identification (app/database.py, identify_sample_by_tags).              *)
(*                                                                         *)
(* Python lists are sequences, Python sets are sets, a dict is a function. *)
(* Three specifications share the module: SpecAlloc runs the pure          *)
(* allocator on bounded pools, SpecDb runs the allocation script against   *)
(* the persisted sample_tags table, SpecIdent runs the identifier on       *)
(* bounded tables and detections.                                          *)
(***************************************************************************)
EXTENDS Integers, Sequences, FiniteSets, TLC

VARIABLES
    TOTAL_TAGS,            \* allocate_tags.py:31, the size of the marker universe
    existing_allocations,  \* the caller's list handed to allocate_tags_greedy
    count,                 \* the count argument
    alloc_result,          \* outcome of the first call
    second_listing,        \* the same pool, listed in another order
    second_result,         \* outcome of the call on second_listing
    alloc_pc,              \* "ready" | "called" | "twice" | "idle"
    rows,                  \* the rows identify_sample_by_tags fetches, in scan order
    detected_tags,         \* the detected_tags argument, a list
    min_match,             \* the min_match argument
    ident_result,          \* what the call returned
    ident_pc,              \* "ready" | "done" | "idle"
    db_sample_tags,           \* the persisted table: rows (sample_id, tag_id, position)
    db_last,               \* the last script run: what was asked and what it did
    race_runs,             \* script runs in progress: each run's position and locals
    race_exclusive,        \* whether the caller lets only one run at a time proceed
    exp_samples,           \* experiment_samples ids of the experiment, by display_order
    assignment,            \* the specialist's assignments row: status, randomization_seed
    specialist_sample_order, \* rows of specialist_sample_order, in insertion order
    annotation_sessions,   \* rows of annotation_sessions, indexed by id
    start_requests,        \* start_experiment requests between their await points
    flow_last,             \* the last specialist request step and its answer
    study_status,          \* studies.status of the study
    study_samples,         \* the study's sample ids, by display_order
    study_assignments,     \* specialist ids assigned to the study
    study_last             \* the last admin request and its answer

allocVars == <<existing_allocations, count, alloc_result, second_listing,
               second_result, alloc_pc>>

identVars == <<rows, detected_tags, min_match, ident_result, ident_pc>>

dbVars == <<db_sample_tags, db_last>>

raceVars == <<race_runs, race_exclusive>>

flowVars == <<exp_samples, assignment, specialist_sample_order,
              annotation_sessions, start_requests, flow_last>>

studyVars == <<study_status, study_samples, study_assignments, study_last>>

(***************************************************************************)
(* Configuration, allocate_tags.py:29-34.                                  *)
(*                                                                         *)
(* The script sets TOTAL_TAGS = 587 and searches a window of the 100 least *)
(* used tags (line 77) before the whole universe.  Both are scaled down    *)
(* together: TOTAL_TAGS is fixed by Init to one of TotalTagsChoices and    *)
(* the window holds SearchLimit tags, so that a universe can be exhausted  *)
(* (4, 5, 6 tags), can be larger than the window (6, 7 tags) and can need  *)
(* the whole-universe search after the window failed (7 tags).             *)
(***************************************************************************)
TAGS_PER_SAMPLE == 4
MIN_DISTANCE == 2
POSITIONS == <<"top-left", "top-right", "bottom-left", "bottom-right">>

TotalTagsChoices == {4, 5, 6, 7}
\* The universes with room for two disjoint quadruples, for the runs on
\* pools that leave marker IDs unused.
SpreadTotalTagsChoices == {2 * TAGS_PER_SAMPLE, 2 * TAGS_PER_SAMPLE + 1}
MaxTotalTags ==
    CHOOSE n \in TotalTagsChoices \cup SpreadTotalTagsChoices :
        \A m \in TotalTagsChoices \cup SpreadTotalTagsChoices : m <= n
SearchLimit == 5

\* Bounds of the inputs.
MaxPool == 2
MaxCount == 2
MaxRows == 2
MaxSamples == 3
MaxDetected == 4

(***************************************************************************)
(* Helpers for Python built-ins.                                           *)
(***************************************************************************)
Range(s) == {s[i] : i \in DOMAIN s}

Min(S) == CHOOSE x \in S : \A y \in S : x <= y

\* s[:n]
Prefix(s, n) == SubSeq(s, 1, IF Len(s) < n THEN Len(s) ELSE n)

\* itertools.combinations(range(n), r) as index tuples (1-based), in the
\* lexicographic order itertools emits them.
RECURSIVE IndexCombinations(_, _, _)
IndexCombinations(lo, n, r) ==
    IF r = 0 THEN << <<>> >>
    ELSE IF n - lo + 1 < r THEN << >>
    ELSE LET with == IndexCombinations(lo + 1, n, r - 1)
             without == IndexCombinations(lo + 1, n, r)
         IN  [k \in 1..Len(with) |-> <<lo>> \o with[k]] \o without

CombinationTable ==
    [n \in 0..MaxTotalTags |-> IndexCombinations(1, n, TAGS_PER_SAMPLE)]

\* itertools.combinations(s, TAGS_PER_SAMPLE) yields NumCombinations(s)
\* tuples; Combination(s, k) is the k-th: elements of s, in the order of their
\* positions in s.
NumCombinations(s) == Len(CombinationTable[Len(s)])

Combination(s, k) ==
    [i \in 1..TAGS_PER_SAMPLE |-> s[CombinationTable[Len(s)][k][i]]]

(***************************************************************************)
(* allocate_tags.py:37-39                                                  *)
(***************************************************************************)
\* Mutant: the symmetric difference is not halved.
calculate_distance_not_halved(set1, set2) ==
    Cardinality((set1 \ set2) \cup (set2 \ set1))

calculate_distance(set1, set2) ==
    Cardinality((set1 \ set2) \cup (set2 \ set1)) \div 2

(***************************************************************************)
(* allocate_tags.py:42-50: False as soon as one set of the existing list    *)
(* shares too many tags with the candidate, True when none does.           *)
(***************************************************************************)
\* Mutant: only a set identical to the candidate is rejected.
is_valid_allocation_identical_only(candidate, existing, min_distance) ==
    \A i \in DOMAIN existing :
        LET shared == Cardinality(candidate \cap existing[i])
        IN  ~(shared > TAGS_PER_SAMPLE - 1)

is_valid_allocation(candidate, existing, min_distance) ==
    \A i \in DOMAIN existing :
        LET shared == Cardinality(candidate \cap existing[i])
        IN  ~(shared > TAGS_PER_SAMPLE - min_distance)

(***************************************************************************)
(* allocate_tags.py:60                                                     *)
(***************************************************************************)
\* Mutant: range(1, TOTAL_TAGS + 1).
all_tags_from_one == [i \in 1..TOTAL_TAGS |-> i]

all_tags == [i \in 1..TOTAL_TAGS |-> i - 1]

(***************************************************************************)
(* allocate_tags.py:67-70: tag_usage.get(t, 0) after the counting loop.    *)
(***************************************************************************)
tag_usage(all_existing, t) ==
    Cardinality({i \in DOMAIN all_existing : t \in all_existing[i]})

(***************************************************************************)
(* allocate_tags.py:73: sorted(all_tags, key=usage).  Python's sort is     *)
(* stable: the tags come out grouped by ascending key, and the tags of one *)
(* key keep the order they have in the input list.  A key is at most the   *)
(* number of sets counted.                                                 *)
(***************************************************************************)
\* Mutant: the key is the place of the first listed set that holds the tag
\* (0 when none does), so it depends on the order of the list.
SortKey_first_seen(all_existing, t) ==
    IF \E i \in DOMAIN all_existing : t \in all_existing[i]
    THEN CHOOSE i \in DOMAIN all_existing :
            /\ t \in all_existing[i]
            /\ \A j \in 1..(i - 1) : t \notin all_existing[j]
    ELSE 0

\* Mutant: the sort prefers the most used tags.
SortKey_most_used_first(all_existing, t) ==
    Len(all_existing) - tag_usage(all_existing, t)

SortKey(all_existing, t) == tag_usage(all_existing, t)

\* The keys of the tags of a list, in the list's order.
RECURSIVE SortKeysFrom(_, _, _)
SortKeysFrom(i, tags, all_existing) ==
    IF i > Len(tags) THEN << >>
    ELSE <<SortKey(all_existing, tags[i])>> \o SortKeysFrom(i + 1, tags, all_existing)

\* The positions of the list in sorted order: key k's positions, ascending,
\* then key k+1's, up to the largest possible key.
RECURSIVE StableOrderFrom(_, _, _)
StableOrderFrom(k, keys, maxKey) ==
    IF k > maxKey THEN << >>
    ELSE SelectSeq([i \in 1..Len(keys) |-> i], LAMBDA i : keys[i] = k)
         \o StableOrderFrom(k + 1, keys, maxKey)

\* Mutant: the tags are not ranked by usage (line 73 missing).
sorted_tags_by_id(all_existing) == all_tags

sorted_tags(all_existing) ==
    LET keys == SortKeysFrom(1, all_tags, all_existing)
        order == StableOrderFrom(0, keys, Len(all_existing))
    IN  [r \in 1..Len(order) |-> all_tags[order[r]]]

(***************************************************************************)
(* allocate_tags.py:77-83 and 87-93: the first combination of the given    *)
(* tag list that is valid against all_existing, or found = FALSE.          *)
(***************************************************************************)
Candidate(combo) == Range(combo)

RECURSIVE FirstValidFrom(_, _, _)
FirstValidFrom(k, tags, all_existing) ==
    IF k > NumCombinations(tags) THEN [found |-> FALSE, tags |-> {}]
    ELSE LET candidate == Candidate(Combination(tags, k))
         IN  IF is_valid_allocation(candidate, all_existing, MIN_DISTANCE)
             THEN [found |-> TRUE, tags |-> candidate]
             ELSE FirstValidFrom(k + 1, tags, all_existing)

FirstValid(tags, all_existing) == FirstValidFrom(1, tags, all_existing)

SearchWindow(all_existing) == Prefix(sorted_tags(all_existing), SearchLimit)

\* Mutant: no search of the whole universe after the window failed.
FindCandidate_window_only(all_existing) ==
    FirstValid(SearchWindow(all_existing), all_existing)

\* One pass of the for loop body, lines 65-93: the window of least used
\* tags first, the whole universe only if the window gave nothing.
FindCandidate(all_existing) ==
    LET first == FirstValid(SearchWindow(all_existing), all_existing)
    IN  IF first.found THEN first
        ELSE FirstValid(all_tags, all_existing)

(***************************************************************************)
(* allocate_tags.py:53-101.  The result records whether ValueError was     *)
(* raised, the returned list (none when it raised), and the working copy   *)
(* all_existing as it was when the call ended.                             *)
(***************************************************************************)
\* Mutant: a found quadruple is returned but not added to all_existing
\* (lines 82 and 91 missing).
RECURSIVE GreedyLoop_pool_not_extended(_, _, _)
GreedyLoop_pool_not_extended(all_existing, new_allocations, remaining) ==
    IF remaining = 0
    THEN [raised |-> FALSE, new_allocations |-> new_allocations,
          all_existing |-> all_existing]
    ELSE LET c == FindCandidate(all_existing)
         IN  IF c.found
             THEN GreedyLoop_pool_not_extended(all_existing,
                             Append(new_allocations, c.tags), remaining - 1)
             ELSE [raised |-> TRUE, new_allocations |-> << >>,
                   all_existing |-> all_existing]

RECURSIVE GreedyLoop(_, _, _)
GreedyLoop(all_existing, new_allocations, remaining) ==
    IF remaining = 0
    THEN [raised |-> FALSE, new_allocations |-> new_allocations,
          all_existing |-> all_existing]
    ELSE LET c == FindCandidate(all_existing)
         IN  IF c.found
             THEN GreedyLoop(Append(all_existing, c.tags),
                             Append(new_allocations, c.tags), remaining - 1)
             ELSE [raised |-> TRUE, new_allocations |-> << >>,
                   all_existing |-> all_existing]

allocate_tags_greedy(existing, n) == GreedyLoop(existing, << >>, n)

\* Mutant: all_existing is the caller's list itself, not a copy of it.
CallersList_no_copy(existing, result) == result.all_existing

\* What the caller's list holds after the call.  Line 62 makes all_existing
\* a copy, so the appends of lines 82 and 91 do not reach the caller's list,
\* and no statement changes a member set.
CallersList(existing, result) == existing

NoResult == [raised |-> FALSE, new_allocations |-> << >>, all_existing |-> << >>]

(***************************************************************************)
(* database.py:813-867, identify_sample_by_tags.  The query (839-846)      *)
(* yields one row per sample: its id and its tag ids, a list the code      *)
(* turns into a set (853).  Optional[int] is a set with at most one        *)
(* member: None is {}.                                                     *)
(***************************************************************************)
None == {}

DEFAULT_MIN_MATCH == 3

\* Mutant: best_score starts below every score.
ScanStart_minus_one ==
    [best_match |-> None, best_score |-> -1, second_best_score |-> -1]

\* Lines 848-850.
ScanStart == [best_match |-> None, best_score |-> 0, second_best_score |-> 0]

\* Mutant: the elif branch is missing, so the runner-up is only ever a
\* former best.
ScanRow_no_elif(st, row, detected_set) ==
    LET sample_tags == Range(row.tags)
        score == Cardinality(detected_set \cap sample_tags)
    IN  IF score > st.best_score
        THEN [best_match |-> {row.sample_id}, best_score |-> score,
              second_best_score |-> st.best_score]
        ELSE st

\* Mutant: a new best does not hand its score down (line 857 missing).
ScanRow_no_demote(st, row, detected_set) ==
    LET sample_tags == Range(row.tags)
        score == Cardinality(detected_set \cap sample_tags)
    IN  IF score > st.best_score
        THEN [best_match |-> {row.sample_id}, best_score |-> score,
              second_best_score |-> st.second_best_score]
        ELSE IF score > st.second_best_score
             THEN [st EXCEPT !.second_best_score = score]
             ELSE st

\* Lines 853-861, the loop body for one row.
ScanRow(st, row, detected_set) ==
    LET sample_tags == Range(row.tags)
        score == Cardinality(detected_set \cap sample_tags)
    IN  IF score > st.best_score
        THEN [best_match |-> {row.sample_id}, best_score |-> score,
              second_best_score |-> st.best_score]
        ELSE IF score > st.second_best_score
             THEN [st EXCEPT !.second_best_score = score]
             ELSE st

\* Lines 852-861, the loop over the rows from row i on.
RECURSIVE ScanRows(_, _, _, _)
ScanRows(st, i, table, detected_set) ==
    IF i > Len(table) THEN st
    ELSE ScanRows(ScanRow(st, table[i], detected_set), i + 1, table, detected_set)

\* Mutant: a margin of 2 is required.
Decide_margin_two(st, min_match_arg) ==
    IF st.best_score >= min_match_arg
       /\ (st.best_score - st.second_best_score) >= 2
    THEN st.best_match
    ELSE None

\* Mutant: a margin of 0 is enough.
Decide_margin_zero(st, min_match_arg) ==
    IF st.best_score >= min_match_arg
       /\ (st.best_score - st.second_best_score) >= 0
    THEN st.best_match
    ELSE None

\* Mutant: the best score is not compared with min_match.
Decide_no_threshold(st, min_match_arg) ==
    IF (st.best_score - st.second_best_score) >= 1
    THEN st.best_match
    ELSE None

\* Mutant: a rejected detection yields the id 0 instead of None.
Decide_sentinel(st, min_match_arg) ==
    IF st.best_score >= min_match_arg
       /\ (st.best_score - st.second_best_score) >= 1
    THEN st.best_match
    ELSE {0}

\* Lines 864-867.
Decide(st, min_match_arg) ==
    IF st.best_score >= min_match_arg
       /\ (st.best_score - st.second_best_score) >= 1
    THEN st.best_match
    ELSE None

identify_sample_by_tags(table, detected, min_match_arg) ==
    IF Len(detected) < min_match_arg THEN None
    ELSE Decide(ScanRows(ScanStart, 1, table, Range(detected)), min_match_arg)

\* sorted(S) for a set of integers.
RECURSIVE SortedSeq(_)
SortedSeq(S) ==
    IF S = {} THEN << >>
    ELSE LET t == Min(S) IN <<t>> \o SortedSeq(S \ {t})

(***************************************************************************)
(* The allocation script against the sample_tags table,                    *)
(* allocate_tags.py:104-234.  The table is the set of its rows; the        *)
(* samples table holds the ids 1..MaxSamples.  A run is one action: the    *)
(* runs do not overlap.                                                    *)
(***************************************************************************)
Samples == 1..MaxSamples

SampleRows(table, sid) == {r \in table : r.sample_id = sid}

SamplesWithRows(table) == {r.sample_id : r \in table}

\* allocate_tags.py:104-118: sample id -> the set of the tag ids of its rows.
get_existing_allocations(table) ==
    [sid \in SamplesWithRows(table) |-> {r.tag_id : r \in SampleRows(table, sid)}]

\* allocate_tags.py:176 and 224: list(existing.values()), in the order of
\* the query's groups, ascending sample id.
RECURSIVE ValuesFrom(_, _, _)
ValuesFrom(i, ids, table) ==
    IF i > Len(ids) THEN << >>
    ELSE <<{r.tag_id : r \in SampleRows(table, ids[i])}>>
         \o ValuesFrom(i + 1, ids, table)

\* Mutant: the run does not read the allocations the table holds.
ExistingSets_none(table) == << >>

ExistingSets(table) == ValuesFrom(1, SortedSeq(SamplesWithRows(table)), table)

RECURSIVE Reversed(_)
Reversed(s) == IF s = << >> THEN << >> ELSE Append(Reversed(Tail(s)), Head(s))

\* Mutant: the query orders the samples by descending id.
get_samples_without_tags_descending(table) ==
    Reversed(SortedSeq(Samples \ SamplesWithRows(table)))

\* allocate_tags.py:121-130: the ids of the samples without rows, ascending.
get_samples_without_tags(table) == SortedSeq(Samples \ SamplesWithRows(table))

\* Mutant: the ids are written in descending order.
save_allocation_descending(table, sid, tags) ==
    LET tag_list == SortedSeq(tags)
    IN  table \cup {[sample_id |-> sid,
                     tag_id |-> tag_list[Len(POSITIONS) + 1 - i],
                     position |-> POSITIONS[i]] : i \in 1..Len(POSITIONS)}

\* allocate_tags.py:133-141.
save_allocation(table, sid, tags) ==
    LET tag_list == SortedSeq(tags)
    IN  table \cup {[sample_id |-> sid, tag_id |-> tag_list[i],
                     position |-> POSITIONS[i]] : i \in 1..Len(POSITIONS)}

\* Mutant: the DELETE removes one row of the sample, not all of them.
delete_allocation_one_row(table, sid) ==
    table \ {r \in SampleRows(table, sid) : r.position = POSITIONS[1]}

\* allocate_tags.py:144-147.
delete_allocation(table, sid) == table \ SampleRows(table, sid)

\* Mutant: the loop without line 185, so a batch does not see the tags it
\* has just given out.
RECURSIVE BulkLoop_no_append(_, _, _, _, _, _)
BulkLoop_no_append(i, samples_needing_tags, existing_sets, table, assigned, dry_run) ==
    IF i > Len(samples_needing_tags)
    THEN [table |-> table, assigned |-> assigned, raised |-> FALSE]
    ELSE LET res == allocate_tags_greedy(existing_sets, 1)
         IN  IF res.raised
             THEN [table |-> table, assigned |-> assigned, raised |-> TRUE]
             ELSE LET new_tags == res.new_allocations[1]
                      sid == samples_needing_tags[i]
                  IN  BulkLoop_no_append(i + 1, samples_needing_tags,
                               existing_sets,
                               IF dry_run THEN table
                               ELSE save_allocation(table, sid, new_tags),
                               Append(assigned, <<sid, new_tags>>), dry_run)

\* Mutant: the run commits once, at its end, so a run that ends on
\* ValueError leaves none of its allocations in the table.
RECURSIVE BulkLoop_rolled_back(_, _, _, _, _, _)
BulkLoop_rolled_back(i, samples_needing_tags, existing_sets, table, assigned, dry_run) ==
    IF i > Len(samples_needing_tags)
    THEN [table |-> table, assigned |-> assigned, raised |-> FALSE]
    ELSE LET res == allocate_tags_greedy(existing_sets, 1)
         IN  IF res.raised
             THEN [table |-> {r \in table : \A k \in DOMAIN assigned :
                                               r.sample_id # assigned[k][1]},
                   assigned |-> assigned, raised |-> TRUE]
             ELSE LET new_tags == res.new_allocations[1]
                      sid == samples_needing_tags[i]
                  IN  BulkLoop_rolled_back(i + 1, samples_needing_tags,
                               Append(existing_sets, new_tags),
                               IF dry_run THEN table
                               ELSE save_allocation(table, sid, new_tags),
                               Append(assigned, <<sid, new_tags>>), dry_run)

\* allocate_tags.py:178-191, the loop from the i-th sample needing tags on.
\* The result is the table, the samples given tags (with the tags) and
\* whether the loop ended on ValueError.
RECURSIVE BulkLoop(_, _, _, _, _, _)
BulkLoop(i, samples_needing_tags, existing_sets, table, assigned, dry_run) ==
    IF i > Len(samples_needing_tags)
    THEN [table |-> table, assigned |-> assigned, raised |-> FALSE]
    ELSE LET res == allocate_tags_greedy(existing_sets, 1)
         IN  IF res.raised
             THEN [table |-> table, assigned |-> assigned, raised |-> TRUE]
             ELSE LET new_tags == res.new_allocations[1]
                      sid == samples_needing_tags[i]
                  IN  BulkLoop(i + 1, samples_needing_tags,
                               Append(existing_sets, new_tags),
                               IF dry_run THEN table
                               ELSE save_allocation(table, sid, new_tags),
                               Append(assigned, <<sid, new_tags>>), dry_run)

\* allocate_tags.py:150-196.
allocate_all_samples(table, dry_run, reallocate) ==
    LET cleared == IF reallocate THEN {} ELSE table
        samples_needing_tags == get_samples_without_tags(cleared)
    IN  BulkLoop(1, samples_needing_tags, ExistingSets(cleared), cleared,
                 << >>, dry_run)

\* allocate_tags.py:166-168 and 193-196: the number of samples the run
\* prints as successfully allocated, None when it prints no such number
\* (nothing needed tags, or a dry run).
SuccessReport(table, dry_run, reallocate) ==
    LET cleared == IF reallocate THEN {} ELSE table
        samples_needing_tags == get_samples_without_tags(cleared)
    IN  IF samples_needing_tags = << >> \/ dry_run THEN None
        ELSE {Len(samples_needing_tags)}

\* Mutant: the rows of the sample are not looked up (lines 215-221 missing).
allocate_single_sample_no_check(table, sample_id, dry_run) ==
    IF sample_id \notin Samples
    THEN [table |-> table, assigned |-> << >>, raised |-> FALSE]
    ELSE LET res == allocate_tags_greedy(ExistingSets(table), 1)
         IN  IF res.raised
             THEN [table |-> table, assigned |-> << >>, raised |-> TRUE]
             ELSE [table |-> IF dry_run THEN table
                             ELSE save_allocation(table, sample_id,
                                                  res.new_allocations[1]),
                   assigned |-> << <<sample_id, res.new_allocations[1]>> >>,
                   raised |-> FALSE]

\* allocate_tags.py:199-234.  An unknown sample and a sample that has rows
\* end the run early; ValueError leaves the run before anything is saved.
allocate_single_sample(table, sample_id, dry_run) ==
    IF sample_id \notin Samples \/ SampleRows(table, sample_id) # {}
    THEN [table |-> table, assigned |-> << >>, raised |-> FALSE]
    ELSE LET res == allocate_tags_greedy(ExistingSets(table), 1)
         IN  IF res.raised
             THEN [table |-> table, assigned |-> << >>, raised |-> TRUE]
             ELSE [table |-> IF dry_run THEN table
                             ELSE save_allocation(table, sample_id,
                                                  res.new_allocations[1]),
                   assigned |-> << <<sample_id, res.new_allocations[1]>> >>,
                   raised |-> FALSE]

NoRun == [op |-> "none", sample_id |-> 0, dry_run |-> FALSE,
          reallocate |-> FALSE, assigned |-> << >>, raised |-> FALSE,
          reported |-> None]

\* What the last-request variables hold before any request was made.
NoRequest == [op |-> "none", user |-> 0, target |-> 0, code |-> 0]

\* The variables of a part that a specification does not run.
FlowIdle ==
    /\ exp_samples = << >>
    /\ assignment = [status |-> "pending", randomization_seed |-> 0]
    /\ specialist_sample_order = << >>
    /\ annotation_sessions = << >>
    /\ start_requests = << >>
    /\ flow_last = NoRequest

StudyIdle ==
    /\ study_status = "draft"
    /\ study_samples = << >>
    /\ study_assignments = {}
    /\ study_last = NoRequest

DbIdle ==
    /\ db_sample_tags = {}
    /\ db_last = NoRun

RaceIdle ==
    /\ race_runs = << >>
    /\ race_exclusive = FALSE

IdentIdle ==
    /\ rows = << >>
    /\ detected_tags = << >>
    /\ min_match = DEFAULT_MIN_MATCH
    /\ ident_result = None
    /\ ident_pc = "idle"

AllocIdle ==
    /\ existing_allocations = << >>
    /\ count = 0
    /\ alloc_result = NoResult
    /\ second_listing = << >>
    /\ second_result = NoResult
    /\ alloc_pc = "idle"

(***************************************************************************)
(* SpecAlloc: the pure allocator on bounded inputs.                        *)
(***************************************************************************)
TagIds(n) == 0..(n - 1)

QuadrupleTable ==
    [n \in 0..MaxTotalTags |->
        {S \in SUBSET TagIds(n) : Cardinality(S) = TAGS_PER_SAMPLE}]

Quadruples(n) == QuadrupleTable[n]

\* A number for a set of tags, to list a pool in one fixed order.
RECURSIVE SetCode(_)
SetCode(S) ==
    IF S = {} THEN 0
    ELSE LET t == Min(S) IN 2 ^ t + SetCode(S \ {t})

\* The pools handed to the allocator: lists of at most MaxPool quadruples
\* (a quadruple may occur twice).  Init lists a pool in ascending SetCode;
\* AllocCallAgain lists the same pool in every other order.
Pools(n) ==
    {p \in UNION {[1..len -> Quadruples(n)] : len \in 0..MaxPool} :
        \A i \in 1..(Len(p) - 1) : SetCode(p[i]) <= SetCode(p[i + 1])}

Reorderings(len) ==
    {p \in [1..len -> 1..len] : \A i, j \in 1..len : p[i] = p[j] => i = j}

InitAlloc ==
    /\ TOTAL_TAGS \in TotalTagsChoices
    /\ existing_allocations \in Pools(TOTAL_TAGS)
    /\ count \in 1..MaxCount
    /\ alloc_result = NoResult
    /\ second_listing = << >>
    /\ second_result = NoResult
    /\ alloc_pc = "ready"
    /\ IdentIdle
    /\ FlowIdle
    /\ StudyIdle
    /\ DbIdle
    /\ RaceIdle

\* A call allocate_tags_greedy(existing_allocations, count).
AllocCall ==
    /\ alloc_pc = "ready"
    /\ alloc_result' = allocate_tags_greedy(existing_allocations, count)
    /\ existing_allocations' = CallersList(existing_allocations, alloc_result')
    /\ alloc_pc' = "called"
    /\ UNCHANGED <<TOTAL_TAGS, flowVars, studyVars, count, second_listing,
                   second_result, identVars, dbVars, raceVars>>

\* The list s with its elements in the order p[1], p[2], ...
RECURSIVE RelistFrom(_, _, _)
RelistFrom(i, s, p) ==
    IF i > Len(s) THEN << >> ELSE <<s[p[i]]>> \o RelistFrom(i + 1, s, p)

Relist(s, p) == RelistFrom(1, s, p)

\* A second call on the same pool, its sets listed in any order.
AllocCallAgain ==
    /\ alloc_pc = "called"
    /\ \E p \in Reorderings(Len(existing_allocations)) :
         /\ second_listing' = Relist(existing_allocations, p)
         /\ second_result' = allocate_tags_greedy(second_listing', count)
    /\ alloc_pc' = "twice"
    /\ UNCHANGED <<TOTAL_TAGS, flowVars, studyVars, existing_allocations, count, alloc_result,
                   identVars, dbVars, raceVars>>

NextAlloc == AllocCall \/ AllocCallAgain

vars == <<TOTAL_TAGS, allocVars, identVars, dbVars, raceVars, flowVars,
          studyVars>>

SpecAlloc == InitAlloc /\ [][NextAlloc]_vars

(***************************************************************************)
(* Claims about the pure allocator, checked under SpecAlloc.               *)
(***************************************************************************)
Shared(A, B) == Cardinality(A \cap B)

MaxShared == TAGS_PER_SAMPLE - MIN_DISTANCE

Returned == alloc_pc \in {"called", "twice"} /\ ~alloc_result.raised

\* C1: every quadruple a call returns shares at most
\* TAGS_PER_SAMPLE - MIN_DISTANCE marker IDs with every set of the existing
\* pool and with every other quadruple returned by the same call.
C1_BatchSeparation ==
    Returned =>
        LET new == alloc_result.new_allocations
        IN  /\ \A k \in DOMAIN new : \A i \in DOMAIN existing_allocations :
                  Shared(new[k], existing_allocations[i]) <= MaxShared
            /\ \A j, k \in DOMAIN new :
                  j # k => Shared(new[j], new[k]) <= MaxShared

\* A call on a pool of MaxPool sets returned two quadruples.
C1_Witness ==
    /\ Returned
    /\ Len(existing_allocations) = MaxPool
    /\ Len(alloc_result.new_allocations) >= 2

\* C7: every returned allocation is a set of exactly TAGS_PER_SAMPLE
\* pairwise distinct marker IDs, each in 0..TOTAL_TAGS-1.
C7_QuadrupleInUniverse ==
    Returned =>
        \A k \in DOMAIN alloc_result.new_allocations :
            /\ Cardinality(alloc_result.new_allocations[k]) = TAGS_PER_SAMPLE
            /\ \A t \in alloc_result.new_allocations[k] :
                  t \in Int /\ 0 <= t /\ t <= TOTAL_TAGS - 1

\* A call returned a quadruple that uses the highest marker ID.
C7_Witness ==
    /\ Returned
    /\ \E k \in DOMAIN alloc_result.new_allocations :
          TOTAL_TAGS - 1 \in alloc_result.new_allocations[k]

SeparatedFromAll(Q, pool) == \A i \in DOMAIN pool : Shared(Q, pool[i]) <= MaxShared

\* C5: the call raises exactly when no 4-subset of the universe is separated
\* from every set of the working pool: when it raises, none exists; when it
\* returns, it returned count quadruples, each a 4-subset of the universe
\* separated from the pool it was searched against.  With TOTAL_TAGS = 4 and
\* the pool {{0,1,2,3}} the call raises.
C5_CapacityExhausted ==
    alloc_pc \in {"called", "twice"} =>
        /\ alloc_result.raised =>
              ~ \E Q \in Quadruples(TOTAL_TAGS) :
                    SeparatedFromAll(Q, alloc_result.all_existing)
        /\ ~alloc_result.raised =>
              /\ Len(alloc_result.new_allocations) = count
              /\ \A k \in DOMAIN alloc_result.new_allocations :
                    /\ alloc_result.new_allocations[k] \in Quadruples(TOTAL_TAGS)
                    /\ SeparatedFromAll(alloc_result.new_allocations[k],
                          existing_allocations
                            \o SubSeq(alloc_result.new_allocations, 1, k - 1))
        /\ (TOTAL_TAGS = 4 /\ existing_allocations = << {0, 1, 2, 3} >>) =>
              alloc_result.raised

\* The 4-tag universe with its only quadruple allocated: the call raised.
C5_Witness ==
    /\ alloc_pc = "called"
    /\ TOTAL_TAGS = 4
    /\ existing_allocations = << {0, 1, 2, 3} >>
    /\ alloc_result.raised

\* C6: two calls with the same pool and count give the same outcome (the
\* same sequence of quadruples, or both raise), in whatever order the
\* pool's sets are listed.
C6_Deterministic ==
    alloc_pc = "twice" =>
        /\ second_result.raised = alloc_result.raised
        /\ second_result.new_allocations = alloc_result.new_allocations

\* A second call on a relisted pool returned two quadruples.
C6_Witness ==
    /\ alloc_pc = "twice"
    /\ second_listing # existing_allocations
    /\ ~second_result.raised
    /\ Len(second_result.new_allocations) >= 2

(***************************************************************************)
(* SpecIdent: the identifier on bounded tables and detections.             *)
(***************************************************************************)
\* The identifier's universe: the smallest in which two samples can be
\* separated.
IdentTotalTags == TAGS_PER_SAMPLE + MIN_DISTANCE

\* The tables: at most MaxRows samples with ids 1, 2, ... in scan order.  The
\* first sample holds the quadruple {0,1,2,3}, the allocator's first; every
\* other sample holds any quadruple of the universe.  (The identifier only
\* compares tag ids for equality, so renaming tags maps any table to one of
\* these.)
FirstQuadruple == 0..(TAGS_PER_SAMPLE - 1)

IdentTables ==
    {[i \in 1..Len(q) |-> [sample_id |-> i, tags |-> SortedSeq(q[i])]] :
        q \in {q \in UNION {[1..len -> Quadruples(IdentTotalTags)] : len \in 0..MaxRows} :
                 Len(q) >= 1 => q[1] = FirstQuadruple}}

\* The detection lists: the distinct ids in ascending order, followed by
\* repeats of the first id, at most MaxDetected entries in all.
Detections ==
    {SortedSeq(d[1]) \o [i \in 1..d[2] |-> Min(d[1])] :
        d \in {d \in (SUBSET TagIds(IdentTotalTags)) \X (0..MaxDetected) :
                 /\ d[1] = {} => d[2] = 0
                 /\ Cardinality(d[1]) + d[2] <= MaxDetected}}

MinMatchChoices == 0..(TAGS_PER_SAMPLE + 1)

InitIdent ==
    /\ TOTAL_TAGS = IdentTotalTags
    /\ rows \in IdentTables
    /\ detected_tags = << >>
    /\ min_match = DEFAULT_MIN_MATCH
    /\ ident_result = None
    /\ ident_pc = "ready"
    /\ AllocIdle
    /\ FlowIdle
    /\ StudyIdle
    /\ DbIdle
    /\ RaceIdle

\* A call identify_sample_by_tags(db, detected, m) on the table.
Identify ==
    /\ ident_pc = "ready"
    /\ \E detected \in Detections, m \in MinMatchChoices :
         /\ detected_tags' = detected
         /\ min_match' = m
         /\ ident_result' = identify_sample_by_tags(rows, detected, m)
    /\ ident_pc' = "done"
    /\ UNCHANGED <<TOTAL_TAGS, flowVars, studyVars, rows, allocVars, dbVars, raceVars>>

NextIdent == Identify

SpecIdent == InitIdent /\ [][NextIdent]_vars

(***************************************************************************)
(* SpecDb: runs of the allocation script, one after the other, on a        *)
(* persisted table that starts separated.                                  *)
(***************************************************************************)
Separated(A, B) == Shared(A, B) <= MaxShared

\* The tables save_allocation can have written for an assignment of
\* quadruples to some of the samples, any two of them separated.
SeparatedTables(n) ==
    LET partial == [Samples -> Quadruples(n) \cup {{}}]
        fits(f) == \A a, b \in Samples :
                      (a # b /\ f[a] # {} /\ f[b] # {}) => Separated(f[a], f[b])
        rowsOf(f) == UNION {save_allocation({}, sid, f[sid]) :
                              sid \in {x \in Samples : f[x] # {}}}
    IN  {rowsOf(f) : f \in {g \in partial : fits(g)}}

\* Universes of one sample's and of MaxSamples samples' capacity.
DbTotalTagsChoices == {TAGS_PER_SAMPLE + 1, TAGS_PER_SAMPLE + MIN_DISTANCE}

InitDb ==
    /\ TOTAL_TAGS \in DbTotalTagsChoices
    /\ db_sample_tags \in SeparatedTables(TOTAL_TAGS)
    /\ db_last = NoRun
    /\ AllocIdle
    /\ FlowIdle
    /\ StudyIdle
    /\ IdentIdle
    /\ RaceIdle

\* python scripts/allocate_tags.py --sample-id sid [--dry-run]
RunSingle ==
    \E sid \in 1..(MaxSamples + 1), dry \in BOOLEAN :
        LET run == allocate_single_sample(db_sample_tags, sid, dry)
        IN  /\ db_sample_tags' = run.table
            /\ db_last' = [op |-> "single", sample_id |-> sid, dry_run |-> dry,
                           reallocate |-> FALSE, assigned |-> run.assigned,
                           raised |-> run.raised, reported |-> None]
            /\ UNCHANGED <<TOTAL_TAGS, flowVars, studyVars, allocVars, identVars, raceVars>>

\* python scripts/allocate_tags.py [--reallocate-all] [--dry-run]
RunAll ==
    \E dry \in BOOLEAN, re \in BOOLEAN :
        LET run == allocate_all_samples(db_sample_tags, dry, re)
        IN  /\ db_sample_tags' = run.table
            /\ db_last' = [op |-> "all", sample_id |-> 0, dry_run |-> dry,
                           reallocate |-> re, assigned |-> run.assigned,
                           raised |-> run.raised,
                           reported |-> SuccessReport(db_sample_tags, dry, re)]
            /\ UNCHANGED <<TOTAL_TAGS, flowVars, studyVars, allocVars, identVars, raceVars>>

\* delete_allocation(db, sid)
RunDelete ==
    \E sid \in Samples :
        /\ db_sample_tags' = delete_allocation(db_sample_tags, sid)
        /\ db_last' = [op |-> "delete", sample_id |-> sid, dry_run |-> FALSE,
                       reallocate |-> FALSE, assigned |-> << >>, raised |-> FALSE,
                       reported |-> None]
        /\ UNCHANGED <<TOTAL_TAGS, flowVars, studyVars, allocVars, identVars, raceVars>>

NextDb == RunSingle \/ RunAll \/ RunDelete

SpecDb == InitDb /\ [][NextDb]_vars

\* C2: after any sequence of runs of allocate_single_sample,
\* allocate_all_samples (with or without reallocate) and delete_allocation,
\* started on a separated table, any two samples of the persisted table
\* share at most TAGS_PER_SAMPLE - MIN_DISTANCE marker IDs.
C2_TableStaysSeparated ==
    LET existing == get_existing_allocations(db_sample_tags)
    IN  \A a, b \in DOMAIN existing :
            a # b => Cardinality(existing[a] \cap existing[b]) <= MaxShared

\* A run gave tags to a sample while two other samples held tags.
C2_Witness ==
    /\ db_last.op \in {"single", "all"}
    /\ ~db_last.dry_run
    /\ Len(db_last.assigned) >= 1
    /\ Cardinality(SamplesWithRows(db_sample_tags)) = MaxSamples

(***************************************************************************)
(* Claims about the identifier, checked under SpecIdent.                   *)
(***************************************************************************)
Identified == ident_pc = "done"

DetectedSet == Range(detected_tags)

RowTags(i) == Range(rows[i].tags)

Score(i) == Cardinality(DetectedSet \cap RowTags(i))

TableSeparated ==
    \A i, j \in DOMAIN rows : i # j => Shared(RowTags(i), RowTags(j)) <= MaxShared

\* C3: on a table that satisfies the separation invariant (MIN_DISTANCE = 2,
\* 4 markers per sample), a detection of at least 3 markers of a sample s
\* and of nothing else is identified as s under min_match = 3.
C3_PartialDetectionIdentified ==
    (Identified /\ min_match = 3 /\ TableSeparated) =>
        \A i \in DOMAIN rows :
            (DetectedSet \subseteq RowTags(i) /\ Cardinality(DetectedSet) >= 3)
                => ident_result = {rows[i].sample_id}

\* Three of the second sample's markers were detected, and another sample
\* holds two of them.
C3_Witness ==
    /\ Identified /\ min_match = 3 /\ TableSeparated
    /\ Len(rows) = 2
    /\ DetectedSet \subseteq RowTags(2)
    /\ Cardinality(DetectedSet) = 3
    /\ Score(1) = 2
    /\ ident_result = {rows[2].sample_id}

\* The rows whose overlap reaches min_match and exceeds every other row's
\* overlap by at least 1.
ClearWinners ==
    {i \in DOMAIN rows :
        /\ Score(i) >= min_match
        /\ \A j \in DOMAIN rows : j # i => Score(i) >= Score(j) + 1}

\* C4: for min_match >= 1 the call returns sample s exactly when s's overlap
\* with the detection is at least min_match and at least 1 greater than
\* every other sample's; otherwise it returns None.
C4_AcceptIffClearWinner ==
    (Identified /\ min_match >= 1) =>
        ident_result = {rows[i].sample_id : i \in ClearWinners}

\* A sample was accepted although another sample overlaps the detection too.
C4_Witness ==
    /\ Identified /\ min_match >= 1
    /\ ident_result # None
    /\ \E i \in DOMAIN rows : Score(i) > 0 /\ {rows[i].sample_id} # ident_result

\* C8: a detection with fewer than min_match distinct marker IDs is never
\* identified, also when repeats make the list min_match long.
C8_TooFewDistinctUnidentified ==
    (Identified /\ Cardinality(DetectedSet) < min_match) => ident_result = None

\* A list as long as min_match, with repeats, whose ids all belong to a sample.
C8_Witness ==
    /\ Identified
    /\ Len(detected_tags) >= min_match
    /\ Cardinality(DetectedSet) < min_match
    /\ \E i \in DOMAIN rows : DetectedSet # {} /\ DetectedSet \subseteq RowTags(i)
    /\ ident_result = None

Scores == [i \in DOMAIN rows |-> Score(i)]

\* Rows i and j, two different rows, both have the highest overlap sc.
TiedAtTop(sc, i, j) ==
    i # j /\ sc[i] = sc[j] /\ \A k \in DOMAIN sc : sc[k] <= sc[i]

\* Row i has a higher overlap than every other row, and exactly 1 more than
\* some other row.
LeadsByOne(sc, i) ==
    /\ \A j \in DOMAIN sc : j # i => sc[j] < sc[i]
    /\ \E j \in DOMAIN sc : j # i /\ sc[j] = sc[i] - 1

\* C9: when two or more samples tie for the highest overlap the call returns
\* None, whatever the tied score and the scan order; when one sample leads
\* by exactly 1 (and its overlap reaches min_match) it is accepted.
C9_TieUnidentifiedLeadAccepted ==
    Identified =>
        LET sc == Scores
        IN  /\ (\E i, j \in DOMAIN sc : TiedAtTop(sc, i, j)) => ident_result = None
            /\ \A i \in DOMAIN sc :
                  (LeadsByOne(sc, i) /\ sc[i] >= min_match)
                      => ident_result = {rows[i].sample_id}

\* Two samples tie at a score that reaches min_match: the second one scanned
\* is not accepted either.
C9_Witness ==
    /\ Identified /\ Len(rows) >= 2
    /\ TiedAtTop(Scores, 1, 2)
    /\ Score(1) >= min_match /\ min_match >= 1
    /\ ident_result = None

\* C10: an empty detection is never identified, for every table and every
\* min_match.
C10_EmptyDetectionUnidentified ==
    (Identified /\ detected_tags = << >>) => ident_result = None

\* An empty detection with min_match = 0, which passes the length test,
\* on a table with samples.
C10_Witness ==
    /\ Identified /\ detected_tags = << >>
    /\ min_match = 0
    /\ Len(rows) >= 1
    /\ ident_result = None

\* C11: the result is None or the id of a sample of the table whose overlap
\* with the detection is at least min_match; never an id that is not in the
\* table, whether the table is empty or every overlap is 0.
C11_NoneOrSampleOfTable ==
    Identified =>
        \/ ident_result = None
        \/ \E i \in DOMAIN rows :
              /\ ident_result = {rows[i].sample_id}
              /\ Score(i) >= min_match

\* A detection that passes the length test while every overlap is 0 (the
\* table is empty or holds none of the detected ids).
C11_Witness ==
    /\ Identified
    /\ Len(detected_tags) >= min_match
    /\ detected_tags # << >>
    /\ \A i \in DOMAIN rows : Score(i) = 0
    /\ ident_result = None

(***************************************************************************)
(* SpecRace: two runs of the script whose database statements interleave.  *)
(* A run is its statements in order: the checks, the read of the existing  *)
(* allocations, and for each sample the search with the save.  The search  *)
(* works on the run's own list, so it goes with the save that follows it.  *)
(* The runs save (no --dry-run) and keep the table (no --reallocate-all).  *)
(***************************************************************************)
RunNames == {"a", "b"}

RunKinds ==
    {[kind |-> "single", sample_id |-> sid] : sid \in Samples}
        \cup {[kind |-> "all", sample_id |-> 0]}

NewRun(k) == [kind |-> k.kind, sample_id |-> k.sample_id, pc |-> "start",
              existing_sets |-> << >>, samples_needing_tags |-> << >>]

InitRace ==
    /\ TOTAL_TAGS \in DbTotalTagsChoices
    /\ db_sample_tags \in SeparatedTables(TOTAL_TAGS)
    /\ db_last = NoRun
    /\ race_runs \in {[p \in RunNames |-> NewRun(f[p])] : f \in [RunNames -> RunKinds]}
    /\ race_exclusive \in BOOLEAN
    /\ AllocIdle
    /\ FlowIdle
    /\ StudyIdle
    /\ IdentIdle

\* Under mutual exclusion a run proceeds only while no other run is between
\* its first statement and its end.
MayStep(p) ==
    race_exclusive =>
        \A q \in RunNames \ {p} : race_runs[q].pc \in {"start", "done"}

RaceFrame == UNCHANGED <<TOTAL_TAGS, flowVars, studyVars, db_last,
                         race_exclusive, allocVars, identVars>>

\* allocate_single_sample, lines 208-221: the sample and its rows are looked up.
SingleCheck(p) ==
    LET run == race_runs[p]
    IN  /\ run.kind = "single" /\ run.pc = "start"
        /\ MayStep(p)
        /\ race_runs' = [race_runs EXCEPT ![p].pc =
               IF run.sample_id \notin Samples
                  \/ SampleRows(db_sample_tags, run.sample_id) # {}
               THEN "done" ELSE "read"]
        /\ UNCHANGED db_sample_tags
        /\ RaceFrame

\* allocate_single_sample, lines 223-224.
SingleRead(p) ==
    LET run == race_runs[p]
    IN  /\ run.kind = "single" /\ run.pc = "read"
        /\ MayStep(p)
        /\ race_runs' = [race_runs EXCEPT ![p].pc = "write",
                            ![p].existing_sets = ExistingSets(db_sample_tags)]
        /\ UNCHANGED db_sample_tags
        /\ RaceFrame

\* allocate_single_sample, lines 226-231.
SingleWrite(p) ==
    LET run == race_runs[p]
        res == allocate_tags_greedy(run.existing_sets, 1)
    IN  /\ run.kind = "single" /\ run.pc = "write"
        /\ MayStep(p)
        /\ race_runs' = [race_runs EXCEPT ![p].pc = "done"]
        /\ db_sample_tags' =
               IF res.raised THEN db_sample_tags
               ELSE save_allocation(db_sample_tags, run.sample_id,
                                    res.new_allocations[1])
        /\ RaceFrame

\* allocate_all_samples, lines 164-176.
AllRead(p) ==
    LET run == race_runs[p]
        needing == get_samples_without_tags(db_sample_tags)
    IN  /\ run.kind = "all" /\ run.pc = "start"
        /\ MayStep(p)
        /\ race_runs' = [race_runs EXCEPT
               ![p].pc = IF needing = << >> THEN "done" ELSE "loop",
               ![p].existing_sets = ExistingSets(db_sample_tags),
               ![p].samples_needing_tags = needing]
        /\ UNCHANGED db_sample_tags
        /\ RaceFrame

\* allocate_all_samples, lines 178-191: one turn of the loop.
AllLoop(p) ==
    LET run == race_runs[p]
        res == allocate_tags_greedy(run.existing_sets, 1)
        rest == Tail(run.samples_needing_tags)
    IN  /\ run.kind = "all" /\ run.pc = "loop"
        /\ MayStep(p)
        /\ IF res.raised
           THEN /\ race_runs' = [race_runs EXCEPT ![p].pc = "done"]
                /\ UNCHANGED db_sample_tags
           ELSE /\ race_runs' = [race_runs EXCEPT
                      ![p].pc = IF rest = << >> THEN "done" ELSE "loop",
                      ![p].existing_sets =
                          Append(run.existing_sets, res.new_allocations[1]),
                      ![p].samples_needing_tags = rest]
                /\ db_sample_tags' =
                      save_allocation(db_sample_tags,
                                      Head(run.samples_needing_tags),
                                      res.new_allocations[1])
        /\ RaceFrame

NextRace ==
    \E p \in RunNames :
        \/ SingleCheck(p)
        \/ SingleRead(p)
        \/ SingleWrite(p)
        \/ AllRead(p)
        \/ AllLoop(p)

SpecRace == InitRace /\ [][NextRace]_vars

TableSeparation(table) ==
    \A a, b \in SamplesWithRows(table) :
        a # b => Shared({r.tag_id : r \in SampleRows(table, a)},
                        {r.tag_id : r \in SampleRows(table, b)}) <= MaxShared

\* C12: the read / compute / write sequence of a run is not guarded: when
\* two runs interleave, the table can reach a state where two samples share
\* more than TAGS_PER_SAMPLE - MIN_DISTANCE markers, even the same
\* quadruple; when the runs proceed under mutual exclusion the table stays
\* separated.
C12_ExclusiveRunsKeepSeparation ==
    race_exclusive => TableSeparation(db_sample_tags)

\* Two single runs for different samples, not under mutual exclusion, have
\* both finished and left the two samples with the same quadruple.
C12_Witness ==
    /\ ~race_exclusive
    /\ \A p \in RunNames : race_runs[p].kind = "single" /\ race_runs[p].pc = "done"
    /\ \E a, b \in SamplesWithRows(db_sample_tags) :
          /\ a # b
          /\ {r.tag_id : r \in SampleRows(db_sample_tags, a)}
                = {r.tag_id : r \in SampleRows(db_sample_tags, b)}

\* C13: a sample that has tag rows is not allocated again.  A single run on
\* such a sample does not call the allocator (it neither gives out a
\* quadruple nor raises) and leaves the table as it was; a bulk run without
\* reallocate gives quadruples only to samples that had no rows and leaves
\* the rows of the other samples as they were.
C13_AllocatedSampleNotAllocatedAgain ==
    [][/\ (db_last'.op = "single"
            /\ SampleRows(db_sample_tags, db_last'.sample_id) # {})
           => /\ db_sample_tags' = db_sample_tags
              /\ db_last'.assigned = << >>
              /\ ~db_last'.raised
       /\ (db_last'.op = "all" /\ ~db_last'.reallocate)
           => /\ \A k \in DOMAIN db_last'.assigned :
                    SampleRows(db_sample_tags, db_last'.assigned[k][1]) = {}
              /\ \A sid \in SamplesWithRows(db_sample_tags) :
                    SampleRows(db_sample_tags', sid)
                        = SampleRows(db_sample_tags, sid)]_vars

\* A single run (not a dry run) was asked for a sample that has rows, while
\* another sample has none and the universe has room for one more.
C13_Witness ==
    /\ db_last.op = "single" /\ ~db_last.dry_run
    /\ db_last.sample_id \in Samples
    /\ db_last.assigned = << >> /\ ~db_last.raised
    /\ Cardinality(SampleRows(db_sample_tags, db_last.sample_id)) = TAGS_PER_SAMPLE
    /\ SamplesWithRows(db_sample_tags) # Samples
    /\ ~allocate_tags_greedy(ExistingSets(db_sample_tags), 1).raised

(***************************************************************************)
(* SpecDbEmpty: the runs of SpecDb on a table that starts empty.           *)
(***************************************************************************)
InitDbEmpty ==
    /\ TOTAL_TAGS \in DbTotalTagsChoices
    /\ db_sample_tags = {}
    /\ db_last = NoRun
    /\ AllocIdle
    /\ FlowIdle
    /\ StudyIdle
    /\ IdentIdle
    /\ RaceIdle

SpecDbEmpty == InitDbEmpty /\ [][NextDb]_vars

\* C14: in every state reached from the empty table by runs that do not
\* overlap (single, bulk, reallocate-all, delete_allocation), a sample has
\* no rows or exactly 4 rows, one for each position, holding 4 distinct
\* marker IDs.
C14_NoPartialOrDoubledAllocation ==
    \A sid \in SamplesWithRows(db_sample_tags) :
        LET rs == SampleRows(db_sample_tags, sid)
        IN  /\ Cardinality(rs) = TAGS_PER_SAMPLE
            /\ {r.position : r \in rs} = Range(POSITIONS)
            /\ Cardinality({r.tag_id : r \in rs}) = TAGS_PER_SAMPLE

\* A run gave one sample its rows when every other sample, those of higher
\* id included, had theirs.
C14_Witness ==
    /\ db_last.op \in {"single", "all"} /\ ~db_last.dry_run /\ ~db_last.reallocate
    /\ Len(db_last.assigned) = 1
    /\ db_last.assigned[1][1] # MaxSamples
    /\ SamplesWithRows(db_sample_tags) = Samples

PositionIndex(position) == CHOOSE i \in DOMAIN POSITIONS : POSITIONS[i] = position

\* C15: the marker IDs of a saved quadruple increase along top-left,
\* top-right, bottom-left, bottom-right: the smallest is at top-left and the
\* largest at bottom-right.
C15_IdsIncreaseAlongPositions ==
    \A sid \in SamplesWithRows(db_sample_tags) :
        \A r1, r2 \in SampleRows(db_sample_tags, sid) :
            PositionIndex(r1.position) < PositionIndex(r2.position)
                => r1.tag_id < r2.tag_id

\* A run saved a quadruple whose rows are in the table, next to the rows of
\* another sample.
C15_Witness ==
    /\ db_last.op \in {"single", "all"} /\ ~db_last.dry_run
    /\ Len(db_last.assigned) >= 1
    /\ LET sid == db_last.assigned[1][1]
           tags == db_last.assigned[1][2]
       IN  /\ {r.tag_id : r \in SampleRows(db_sample_tags, sid)} = tags
           /\ \E r \in SampleRows(db_sample_tags, sid) :
                 r.position = "top-left" /\ r.tag_id = Min(tags)
           /\ \E r \in SampleRows(db_sample_tags, sid) :
                 r.position = "bottom-right" /\ r.tag_id > Min(tags) + 3
    /\ Cardinality(SamplesWithRows(db_sample_tags)) >= 2

\* C16: a run with dry_run set leaves the persisted table unchanged, for
\* allocate_single_sample and for allocate_all_samples under every value of
\* the reallocate flag.
C16_DryRunLeavesTableUnchanged ==
    [][db_last'.dry_run => db_sample_tags' = db_sample_tags]_vars

\* n calls with count = 1, each result appended to the pool before the next
\* call: the results so far, or raised when one of the calls raised.
RECURSIVE SuccessiveCalls(_, _, _)
SuccessiveCalls(pool, results, n) ==
    IF n = 0 THEN [raised |-> FALSE, results |-> results]
    ELSE LET one == allocate_tags_greedy(pool, 1)
         IN  IF one.raised THEN [raised |-> TRUE, results |-> results]
             ELSE SuccessiveCalls(Append(pool, one.new_allocations[1]),
                                  Append(results, one.new_allocations[1]), n - 1)

\* C17: a call with count = n that succeeds returns exactly n quadruples,
\* the same, in order, as n successive calls with count = 1 where each
\* result is appended to the pool before the next call.
C17_BatchEqualsSuccessiveCalls ==
    (alloc_pc = "called" /\ ~alloc_result.raised) =>
        LET one_by_one == SuccessiveCalls(existing_allocations, << >>, count)
        IN  /\ Len(alloc_result.new_allocations) = count
            /\ ~one_by_one.raised
            /\ alloc_result.new_allocations = one_by_one.results

\* A batch of at least two on a pool that is not empty, whose second
\* quadruple differs from the first.
C17_Witness ==
    /\ alloc_pc = "called" /\ ~alloc_result.raised
    /\ count >= 2
    /\ existing_allocations # << >>
    /\ alloc_result.new_allocations[1] # alloc_result.new_allocations[2]

\* C18: a bulk run goes through the samples lacking tags in ascending id,
\* and computes each allocation against the persisted allocations plus the
\* ones made earlier in the run, in normal and in dry-run mode: the k-th
\* sample lacking tags receives the k-th quadruple of a batch call on the
\* persisted allocations.  The run reaches every such sample unless the
\* allocator raises, and a normal run saves what it gives.
C18_BulkRunFollowsBatchOrder ==
    [][db_last'.op = "all" =>
        LET cleared == IF db_last'.reallocate THEN {} ELSE db_sample_tags
            lacking == Samples \ SamplesWithRows(cleared)
            given == db_last'.assigned
            batch == allocate_tags_greedy(ExistingSets(cleared), Len(given))
        IN  /\ \A k \in DOMAIN given :
                  /\ given[k][1] \in lacking
                  /\ Cardinality({t \in lacking : t < given[k][1]}) = k - 1
            /\ ~batch.raised
            /\ \A k \in DOMAIN given : given[k][2] = batch.new_allocations[k]
            /\ ~db_last'.raised => Len(given) = Cardinality(lacking)
            /\ ~db_last'.dry_run =>
                  \A k \in DOMAIN given :
                      {r.tag_id : r \in SampleRows(db_sample_tags', given[k][1])}
                          = given[k][2]
            /\ db_last'.dry_run => db_sample_tags' = cleared]_vars

\* A dry bulk run gave quadruples to two samples while another sample held
\* rows, and saved nothing.
C18_Witness ==
    /\ db_last.op = "all" /\ db_last.dry_run /\ ~db_last.reallocate
    /\ Len(db_last.assigned) >= 2
    /\ db_last.assigned[1][1] < db_last.assigned[2][1]
    /\ Cardinality(SamplesWithRows(db_sample_tags)) = 1

(***************************************************************************)
(* The reference search, stated without the loops of the code.             *)
(***************************************************************************)
RefUsage(pool, t) == Cardinality({i \in DOMAIN pool : t \in pool[i]})

\* The ranking as pairs <<place, tag>>: ascending usage, ties in ascending
\* ID.  With ranked = FALSE: the tags in numeric order.
RefRanking(pool, ranked) ==
    LET usage == {<<t, IF ranked THEN RefUsage(pool, t) ELSE 0>> :
                     t \in TagIds(TOTAL_TAGS)}
    IN  {<<1 + Cardinality({u \in usage :
                               \/ u[2] < p[2]
                               \/ u[2] = p[2] /\ u[1] < p[1]}), p[1]>> :
            p \in usage}

\* The sets of TAGS_PER_SAMPLE places of a list of m entries.
RefPlaces ==
    [m \in 0..MaxTotalTags |->
        {I \in SUBSET (1..m) : Cardinality(I) = TAGS_PER_SAMPLE}]

\* I comes before J in combinatorial order: at the first place where the
\* two differ, I has the earlier entry.
RefBefore(I, J) ==
    I # J /\ (CHOOSE x \in (I \ J) \cup (J \ I) :
                 \A y \in (I \ J) \cup (J \ I) : x <= y) \in I

\* The first combination of the first m places of the ranking that is
\* separated from every set of the pool; {} when there is none.
RefFirst(pool, m, ranked) ==
    LET ranking == RefRanking(pool, ranked)
        combos == {<<I, {p[2] : p \in {q \in ranking : q[1] \in I}}>> :
                      I \in RefPlaces[m]}
        good == {c \in combos :
                    \A i \in DOMAIN pool : Shared(c[2], pool[i]) <= MaxShared}
    IN  IF good = {} THEN {}
        ELSE (CHOOSE c \in good : \A d \in good \ {c} : RefBefore(c[1], d[1]))[2]

Reference(pool) ==
    LET inWindow == RefFirst(pool, Min({SearchLimit, TOTAL_TAGS}), TRUE)
    IN  IF inWindow # {} THEN inWindow ELSE RefFirst(pool, TOTAL_TAGS, FALSE)

\* C19: each single allocation is the reference search on the pool it was
\* made against: rank the marker IDs by ascending usage, ties by ascending
\* ID, take the first SearchLimit, return the first combination of that
\* list separated from every pool set; only if there is none, the first
\* separated combination of the whole universe in numeric order; the call
\* raises when that does not exist either.
C19_AllocationIsReferenceSearch ==
    alloc_pc = "called" =>
        LET pool == alloc_result.all_existing
        IN  /\ \A k \in (Len(existing_allocations) + 1)..Len(pool) :
                  pool[k] = Reference(Prefix(pool, k - 1))
            /\ alloc_result.raised => Reference(pool) = {}
            /\ ~alloc_result.raised =>
                  /\ Len(pool) = Len(existing_allocations) + count
                  /\ alloc_result.new_allocations
                        = [k \in 1..count |-> pool[Len(existing_allocations) + k]]

\* An allocation came from the whole universe: no combination of the window
\* was separated from the pool it was made against.
C19_Witness ==
    /\ alloc_pc = "called" /\ ~alloc_result.raised
    /\ LET pool == alloc_result.all_existing
       IN  RefFirst(Prefix(pool, Len(pool) - 1),
                    Min({SearchLimit, TOTAL_TAGS}), TRUE) = {}

\* The sets a call worked with: the caller's pool and the quadruples found.
SetsOfCall == Range(alloc_result.all_existing) \cup Range(existing_allocations)

SymmetricDifference(A, B) == (A \ B) \cup (B \ A)

\* C20: for two 4-element sets A and B, calculate_distance(A, B) is
\* 4 - |A \cap B|, and the gate of is_valid_allocation accepts A against B
\* exactly when calculate_distance(A, B) >= MIN_DISTANCE, which is exactly
\* when the symmetric difference has at least 2 x MIN_DISTANCE elements.
C20_DistanceFormulationsAgree ==
    alloc_pc = "called" =>
        \A A, B \in SetsOfCall :
            LET gate == is_valid_allocation(A, <<B>>, MIN_DISTANCE)
            IN  /\ calculate_distance(A, B) = TAGS_PER_SAMPLE - Cardinality(A \cap B)
                /\ gate <=> (Cardinality(A \cap B) <= TAGS_PER_SAMPLE - MIN_DISTANCE)
                /\ gate <=> (calculate_distance(A, B) >= MIN_DISTANCE)
                /\ gate <=> (Cardinality(SymmetricDifference(A, B)) >= 2 * MIN_DISTANCE)

\* A call whose sets include a pair sharing 3 markers (distance 1, rejected
\* by the gate) and a pair sharing 2 (distance 2, accepted).
C20_Witness ==
    /\ alloc_pc = "called"
    /\ \E A, B \in SetsOfCall :
          /\ Cardinality(A \cap B) = 3
          /\ calculate_distance(A, B) = 1
          /\ ~is_valid_allocation(A, <<B>>, MIN_DISTANCE)
    /\ \E A, B \in SetsOfCall :
          /\ Cardinality(A \cap B) = 2
          /\ calculate_distance(A, B) = 2
          /\ is_valid_allocation(A, <<B>>, MIN_DISTANCE)

MaxOf(S) == CHOOSE x \in S : \A y \in S : y <= x

\* The overlap of a row of a table with the detection.
RowScore(row) == Cardinality(DetectedSet \cap Range(row.tags))

\* Two passes over a table: the highest overlap, then the highest overlap
\* among the other samples; the sample with the highest overlap is accepted
\* when it reaches min_match and leads by at least 1.
TwoPass(table) ==
    LET top == MaxOf({RowScore(table[i]) : i \in DOMAIN table} \cup {0})
        holders == {i \in DOMAIN table : RowScore(table[i]) = top}
        first == CHOOSE i \in holders : \A j \in holders : i <= j
        second == MaxOf({RowScore(table[i]) : i \in DOMAIN table \ {first}} \cup {0})
    IN  IF Len(detected_tags) < min_match \/ top = 0 THEN None
        ELSE IF top >= min_match /\ top - second >= 1
             THEN {table[first].sample_id}
             ELSE None

C23_ExhaustedBulkRunStops ==
    [][(db_last'.op = "all" /\ db_last'.raised /\ ~db_last'.dry_run) =>
        LET cleared == IF db_last'.reallocate THEN {} ELSE db_sample_tags
            lacking == Samples \ SamplesWithRows(cleared)
            given == db_last'.assigned
            served == {given[k][1] : k \in DOMAIN given}
        IN  /\ served \subseteq lacking
            /\ lacking \ served # {}
            /\ \A sid \in lacking \ served : SampleRows(db_sample_tags', sid) = {}
            /\ \A sid \in lacking \ served : \A t \in served : t < sid
            /\ \A k \in DOMAIN given :
                  SampleRows(db_sample_tags', given[k][1])
                      = save_allocation({}, given[k][1], given[k][2])
            /\ \A sid \in SamplesWithRows(cleared) :
                  SampleRows(db_sample_tags', sid) = SampleRows(cleared, sid)
            /\ TableSeparation(db_sample_tags')]_vars

\* A bulk run (not a dry run) gave rows to a sample and then stopped on
\* ValueError with a later sample left without rows.
C23_Witness ==
    /\ db_last.op = "all" /\ db_last.raised /\ ~db_last.dry_run
    /\ Len(db_last.assigned) >= 1
    /\ \E sid \in Samples \ SamplesWithRows(db_sample_tags) :
          sid > db_last.assigned[Len(db_last.assigned)][1]
    /\ SampleRows(db_sample_tags, db_last.assigned[1][1]) # {}

\* C24: the number of samples a bulk run (not a dry run) reports as
\* successfully allocated is the number of samples that received rows in
\* the run, also when the run stopped early on ValueError.
C24_ReportCountsAllocatedSamples ==
    (db_last.op = "all" /\ ~db_last.dry_run /\ db_last.reported # None) =>
        db_last.reported
            = {Cardinality({k \in DOMAIN db_last.assigned :
                   SampleRows(db_sample_tags, db_last.assigned[k][1]) # {}})}

(***************************************************************************)
(* SpecSpread: the allocator on pools that leave marker IDs unused, in     *)
(* universes with room for two disjoint quadruples.                        *)
(***************************************************************************)
\* The pools whose sets use at most TOTAL_TAGS - TAGS_PER_SAMPLE + 1 marker
\* IDs in all: lists of at most MaxPool quadruples of such a set of IDs, in
\* ascending SetCode.
SpreadPools(n) ==
    UNION {{p \in UNION {[1..len -> {S \in SUBSET U : Cardinality(S) = TAGS_PER_SAMPLE}] :
                            len \in 0..MaxPool} :
                \A i \in 1..(Len(p) - 1) : SetCode(p[i]) <= SetCode(p[i + 1])} :
           U \in {V \in SUBSET TagIds(n) :
                     Cardinality(V) = n - TAGS_PER_SAMPLE + 1}}

InitSpread ==
    /\ TOTAL_TAGS \in SpreadTotalTagsChoices
    /\ existing_allocations \in SpreadPools(TOTAL_TAGS)
    /\ count \in 1..MaxCount
    /\ alloc_result = NoResult
    /\ second_listing = << >>
    /\ second_result = NoResult
    /\ alloc_pc = "ready"
    /\ IdentIdle
    /\ FlowIdle
    /\ StudyIdle
    /\ DbIdle
    /\ RaceIdle

SpecSpread == InitSpread /\ [][AllocCall]_vars

Unused(pool) == TagIds(TOTAL_TAGS) \ UNION Range(pool)

\* The n lowest-numbered IDs of a set of at least n IDs.
Lowest(S, n) == {t \in S : Cardinality({u \in S : u < t}) < n}

\* C25: whenever the pool an allocation is made against leaves at least 4
\* marker IDs unused, the allocation is the 4 lowest-numbered unused IDs
\* and shares no marker with a set of the pool; the call does not raise
\* while 4 unused IDs remain; from the empty pool the first allocation is
\* {0,1,2,3}, and the allocations of a batch that are made with 4 unused
\* IDs left are pairwise disjoint.
C25_LowestUnusedMarkers ==
    alloc_pc = "called" =>
        LET pool == alloc_result.all_existing
            before == Len(existing_allocations)
            spread == {k \in (before + 1)..Len(pool) :
                          Cardinality(Unused(Prefix(pool, k - 1))) >= TAGS_PER_SAMPLE}
        IN  /\ \A k \in spread :
                  /\ pool[k] = Lowest(Unused(Prefix(pool, k - 1)), TAGS_PER_SAMPLE)
                  /\ \A i \in 1..(k - 1) : pool[k] \cap pool[i] = {}
            /\ alloc_result.raised => Cardinality(Unused(pool)) < TAGS_PER_SAMPLE
            /\ (existing_allocations = << >> /\ Len(pool) >= 1)
                  => pool[1] = 0..(TAGS_PER_SAMPLE - 1)
            /\ \A j, k \in spread : j # k => pool[j] \cap pool[k] = {}

\* An allocation against a pool that is not empty took the 4 lowest unused
\* IDs, which are not the IDs after the pool's highest; the next allocation
\* of the batch had fewer than 4 unused IDs to take.
C25_Witness ==
    /\ alloc_pc = "called" /\ ~alloc_result.raised
    /\ existing_allocations # << >>
    /\ Len(alloc_result.new_allocations) >= 2
    /\ alloc_result.new_allocations[1] = Lowest(Unused(existing_allocations), TAGS_PER_SAMPLE)
    /\ \E t \in alloc_result.new_allocations[1], u \in UNION Range(existing_allocations) : t < u
    /\ alloc_result.new_allocations[2] \cap UNION Range(existing_allocations) # {}

\* C26: on a table that satisfies the separation invariant, with
\* min_match = 3, a detection of at most 4 distinct IDs that holds at least
\* 3 markers of a sample s (and possibly IDs that are not s's) is
\* identified as s or not at all, never as another sample.
C26_NoisyDetectionNeverMisidentified ==
    (Identified /\ min_match = 3 /\ TableSeparated
        /\ Cardinality(DetectedSet) <= TAGS_PER_SAMPLE) =>
        \A i \in DOMAIN rows :
            Score(i) >= 3 => ident_result \in {None, {rows[i].sample_id}}

\* A detection of 3 markers of the second sample and one marker that is not
\* its own, which gives the first sample 3 as well: nothing is identified.
C26_Witness ==
    /\ Identified /\ min_match = 3 /\ TableSeparated
    /\ Len(rows) = 2
    /\ Cardinality(DetectedSet) = TAGS_PER_SAMPLE
    /\ Score(2) = 3 /\ Score(1) = 3
    /\ ident_result = None


\* ---------------------------------------------------------------------------
\* The specialist's workflow (src/app/routers/specialist.py and the assignment,
\* order and session functions of src/app/database.py): one assignment of one
\* specialist to one experiment.  A NULL column is written 0.

MaxExpSamples == 2
MaxAnnotations == 1

\* The specialists who send requests, and the one the assignment belongs to.
Specialists == {1, 2}

Owner == Min(Specialists)

\* int(time.time() * 1000) at the moment a start request computes its seed.
Times == {1, 2}

\* The audio of a completion request: 0 for none, else its bytes.
AudioChoices == {0, 1}

Rotate(s, k) ==
    IF s = << >> THEN s
    ELSE SubSeq(s, (k % Len(s)) + 1, Len(s)) \o SubSeq(s, 1, k % Len(s))

\* random.seed(seed); random.shuffle(sample_ids): a rearrangement of the list
\* that the seed alone decides.
shuffle(randomization_seed, sample_ids) == Rotate(sample_ids, randomization_seed)

\* get_assignment: the row of (experiment, specialist), if there is one.
HasAssignment(user) == user = Owner

start_assignment(a, randomization_seed) ==
    [a EXCEPT !.status = "in_progress", !.randomization_seed = randomization_seed]

OrderRowsFrom(sample_ids, i) ==
    [k \in 1..(Len(sample_ids) - i + 1) |->
        [experiment_sample_id |-> sample_ids[k + i - 1], specialist_order |-> k + i - 1]]

\* INSERT INTO specialist_sample_order: the table takes every row it is given.
InsertOrderRows(order, new_rows) == order \o new_rows

\* generate_specialist_order: the experiment's samples, shuffled by the seed,
\* are inserted with orders 1..n; rows already stored stay.
generate_specialist_order(order, samples, randomization_seed) ==
    InsertOrderRows(order, OrderRowsFrom(shuffle(randomization_seed, samples), 1))

get_assignment_progress(order, sessions) ==
    LET total == Len(order)
        completed == Cardinality({s \in DOMAIN sessions :
                                    sessions[s].status = "completed"})
    IN  [total |-> total, completed |-> completed, remaining |-> total - completed]

\* start_experiment handled without interruption, lines 58-91.
start_experiment_restarts(a, order, samples, user, seed) ==
    IF ~HasAssignment(user)
    THEN [assignment |-> a, order |-> order, code |-> 404]
    ELSE IF a.status = "completed"
    THEN [assignment |-> a, order |-> order, code |-> 400]
    ELSE [assignment |-> start_assignment(a, seed),
          order |-> generate_specialist_order(order, samples, seed),
          code |-> 200]

start_experiment(a, order, samples, user, seed) ==
    IF ~HasAssignment(user)
    THEN [assignment |-> a, order |-> order, code |-> 404]
    ELSE IF a.status = "completed"
    THEN [assignment |-> a, order |-> order, code |-> 400]
    ELSE IF a.status = "in_progress"
    THEN [assignment |-> a, order |-> order, code |-> 200]
    ELSE [assignment |-> start_assignment(a, seed),
          order |-> generate_specialist_order(order, samples, seed),
          code |-> 200]

\* get_current_session_for_assignment: the order rows joined with their
\* sessions (0: no session), those with a completed session left out.
CurrentRows(order, sessions) ==
    {c \in (DOMAIN order) \X (0..Len(sessions)) :
        LET matching == {t \in DOMAIN sessions :
                            sessions[t].experiment_sample_id
                                = order[c[1]].experiment_sample_id}
        IN  IF c[2] = 0 THEN matching = {}
            ELSE c[2] \in matching /\ sessions[c[2]].status # "completed"}

\* ORDER BY sso.specialist_order LIMIT 1: a row of the lowest order.
FirstRows(order, sessions) ==
    {c \in CurrentRows(order, sessions) :
        \A d \in CurrentRows(order, sessions) :
            order[c[1]].specialist_order <= order[d[1]].specialist_order}

create_annotation_session(sessions, experiment_sample_id) ==
    Append(sessions, [experiment_sample_id |-> experiment_sample_id,
                      status |-> "in_progress", annotations |-> 0,
                      audio_filename |-> 0, audio_file |-> 0])

save_annotations(session, annotations) ==
    [session EXCEPT !.annotations = @ + annotations]

complete_session(session, audio_filename) ==
    [session EXCEPT !.status = "completed", !.audio_filename = audio_filename]

\* Lines 229-256: the audio file is written, the annotations are saved and the
\* session is marked completed.
StoreCompletion(sessions, s, annotations, audio) ==
    [sessions EXCEPT ![s] =
        complete_session(
            save_annotations([@ EXCEPT !.audio_file = IF audio # 0 THEN audio ELSE @],
                             annotations),
            IF audio # 0 THEN s ELSE 0)]

\* Lines 257-271: the assignment is completed when nothing remains.
CompleteIfDone(a, order, sessions) ==
    IF get_assignment_progress(order, sessions).remaining = 0
    THEN [a EXCEPT !.status = "completed"]
    ELSE a

complete_annotation_session_no_status_check(a, order, sessions, user, s, annotations, audio) ==
    IF s \notin DOMAIN sessions
    THEN [assignment |-> a, sessions |-> sessions, code |-> 404]
    ELSE IF user # Owner
    THEN [assignment |-> a, sessions |-> sessions, code |-> 403]
    ELSE LET saved == StoreCompletion(sessions, s, annotations, audio)
         IN  [assignment |-> CompleteIfDone(a, order, saved),
              sessions |-> saved, code |-> 200]

complete_annotation_session(a, order, sessions, user, s, annotations, audio) ==
    IF s \notin DOMAIN sessions
    THEN [assignment |-> a, sessions |-> sessions, code |-> 404]
    ELSE IF sessions[s].status = "completed"
    THEN [assignment |-> a, sessions |-> sessions, code |-> 400]
    ELSE IF user # Owner
    THEN [assignment |-> a, sessions |-> sessions, code |-> 403]
    ELSE LET saved == StoreCompletion(sessions, s, annotations, audio)
         IN  [assignment |-> CompleteIfDone(a, order, saved),
              sessions |-> saved, code |-> 200]

ExperimentSampleLists == {[i \in 1..n |-> i] : n \in 0..MaxExpSamples}

InitFlow ==
    /\ TOTAL_TAGS = MaxTotalTags
    /\ exp_samples \in ExperimentSampleLists
    /\ assignment = [status |-> "pending", randomization_seed |-> 0]
    /\ specialist_sample_order = << >>
    /\ annotation_sessions = << >>
    /\ start_requests = << >>
    /\ flow_last = NoRequest
    /\ AllocIdle
    /\ IdentIdle
    /\ DbIdle
    /\ RaceIdle
    /\ StudyIdle

FlowFrame == UNCHANGED <<TOTAL_TAGS, exp_samples, allocVars, identVars, dbVars,
                         raceVars, studyVars>>

\* A start_experiment request handled from its first line to its answer.
StartExperiment ==
    \E user \in Specialists, now \in Times :
        LET out == start_experiment(assignment, specialist_sample_order,
                                    exp_samples, user, now + user)
        IN  /\ assignment' = out.assignment
            /\ specialist_sample_order' = out.order
            /\ flow_last' = [op |-> "start_experiment", user |-> user,
                             target |-> 0, code |-> out.code]
            /\ UNCHANGED <<annotation_sessions, start_requests>>
            /\ FlowFrame

\* A get_current_sample request, lines 94-199: the session of the current
\* sample is created when it has none.
GetCurrentSample ==
    \E user \in Specialists :
        LET progress == get_assignment_progress(specialist_sample_order,
                                                annotation_sessions)
            first == FirstRows(specialist_sample_order, annotation_sessions)
            code == IF ~HasAssignment(user) THEN 404
                    ELSE IF assignment.status = "pending" THEN 400
                    ELSE 200
            is_complete == \/ assignment.status = "completed"
                           \/ progress.remaining = 0
                           \/ first = {}
        IN  /\ IF code = 200 /\ ~is_complete
               THEN \E current \in first :
                        annotation_sessions' =
                            IF current[2] = 0
                            THEN create_annotation_session(
                                     annotation_sessions,
                                     specialist_sample_order[current[1]].experiment_sample_id)
                            ELSE annotation_sessions
               ELSE annotation_sessions' = annotation_sessions
            /\ flow_last' = [op |-> "get_current_sample", user |-> user,
                             target |-> 0, code |-> code]
            /\ UNCHANGED <<assignment, specialist_sample_order, start_requests>>
            /\ FlowFrame

\* A complete_annotation_session request, lines 201-271.
CompleteAnnotationSession ==
    \E user \in Specialists, s \in 1..(MaxExpSamples + 1),
       annotations \in 0..MaxAnnotations, audio \in AudioChoices :
        LET out == complete_annotation_session(assignment, specialist_sample_order,
                                               annotation_sessions, user, s,
                                               annotations, audio)
        IN  /\ assignment' = out.assignment
            /\ annotation_sessions' = out.sessions
            /\ flow_last' = [op |-> "complete_annotation_session", user |-> user,
                             target |-> s, code |-> out.code]
            /\ UNCHANGED <<specialist_sample_order, start_requests>>
            /\ FlowFrame

NextFlow == StartExperiment \/ GetCurrentSample \/ CompleteAnnotationSession

SpecFlow == InitFlow /\ [][NextFlow]_vars


StatusRank(status) ==
    CASE status = "pending" -> 0
      [] status = "in_progress" -> 1
      [] status = "completed" -> 2

\* Every sample of the stored order has a completed session.
OrderAllCompleted(order, sessions) ==
    \A i \in DOMAIN order :
        \E s \in DOMAIN sessions :
            /\ sessions[s].experiment_sample_id = order[i].experiment_sample_id
            /\ sessions[s].status = "completed"

Requests == {"r1", "r2"}

IdleRequest == [pc |-> "idle", user |-> 0, seed |-> 0]

InitStart ==
    /\ TOTAL_TAGS = MaxTotalTags
    /\ exp_samples \in ExperimentSampleLists
    /\ assignment = [status |-> "pending", randomization_seed |-> 0]
    /\ specialist_sample_order = << >>
    /\ annotation_sessions = << >>
    /\ start_requests = [r \in Requests |-> IdleRequest]
    /\ flow_last = NoRequest
    /\ AllocIdle
    /\ IdentIdle
    /\ DbIdle
    /\ RaceIdle
    /\ StudyIdle

\* Lines 60-78: the assignment is read and its status decides; a request that
\* read "pending" computes its seed and goes on.
StartRead(r) ==
    /\ start_requests[r].pc = "idle"
    /\ \E user \in Specialists, now \in Times :
        LET code == IF ~HasAssignment(user) THEN 404
                    ELSE IF assignment.status = "completed" THEN 400
                    ELSE 200
            goes_on == code = 200 /\ assignment.status = "pending"
        IN  /\ start_requests' =
                  [start_requests EXCEPT ![r] =
                      IF goes_on
                      THEN [pc |-> "start_assignment", user |-> user,
                            seed |-> now + user]
                      ELSE IdleRequest]
            /\ flow_last' = [op |-> "start_experiment", user |-> user,
                             target |-> 0, code |-> code]
    /\ UNCHANGED <<assignment, specialist_sample_order, annotation_sessions>>
    /\ FlowFrame

\* Line 81: await start_assignment(db, assignment["id"], seed).
StartAssign(r) ==
    /\ start_requests[r].pc = "start_assignment"
    /\ assignment' = start_assignment(assignment, start_requests[r].seed)
    /\ start_requests' = [start_requests EXCEPT ![r].pc = "generate"]
    /\ flow_last' = [op |-> "start_assignment", user |-> start_requests[r].user,
                     target |-> 0, code |-> 0]
    /\ UNCHANGED <<specialist_sample_order, annotation_sessions>>
    /\ FlowFrame

\* Lines 84-90: await generate_specialist_order(db, assignment["id"], seed),
\* then the answer "started".
StartGenerate(r) ==
    /\ start_requests[r].pc = "generate"
    /\ specialist_sample_order' =
           generate_specialist_order(specialist_sample_order, exp_samples,
                                     start_requests[r].seed)
    /\ start_requests' = [start_requests EXCEPT ![r] = IdleRequest]
    /\ flow_last' = [op |-> "generate_specialist_order",
                     user |-> start_requests[r].user, target |-> 0, code |-> 200]
    /\ UNCHANGED <<assignment, annotation_sessions>>
    /\ FlowFrame

NextStart ==
    \/ \E r \in Requests : StartRead(r)
    \/ \E r \in Requests : StartAssign(r)
    \/ \E r \in Requests : StartGenerate(r)
    \/ GetCurrentSample
    \/ CompleteAnnotationSession

SpecStart == InitStart /\ [][NextStart]_vars

NoStartInFlight == \A r \in DOMAIN start_requests : start_requests[r].pc = "idle"

\* The stored order holds each experiment sample exactly once, with the
\* orders 1..n.
IsPermutationOfSamples(order, samples) ==
    /\ Len(order) = Len(samples)
    /\ \A x \in Range(samples) :
          Cardinality({i \in DOMAIN order : order[i].experiment_sample_id = x}) = 1
    /\ {order[i].specialist_order : i \in DOMAIN order} = 1..Len(samples)

MaxStudySamples == 2

\* The study statuses the router names.
StudyStatuses == {"draft", "active", "paused", "archived"}

\* The study ids of requests: the first is the study, the other finds none.
StudyIds == {1, 2}

StudyExists(study_id) == study_id = Min(StudyIds)

\* The sample_ids of a selection request: lists of distinct sample ids.
SampleIdLists ==
    {l \in UNION {[1..n -> 1..MaxStudySamples] : n \in 0..MaxStudySamples} :
        \A i, j \in DOMAIN l : i # j => l[i] # l[j]}

\* update_study_status: UPDATE ... SET status = ?.
update_study_status(status) == status

\* add_samples_to_study: the ids are stored with display_order 1..n.
add_samples_to_study(samples, sample_ids) == samples \o sample_ids

StudyFrame == UNCHANGED <<TOTAL_TAGS, allocVars, identVars, dbVars, raceVars,
                          flowVars>>

Answer(op, study_id, code) ==
    [op |-> op, user |-> 0, target |-> study_id, code |-> code]

\* update_study, lines 96-126: a status in the request is stored as it is.
UpdateStudy ==
    \E study_id \in StudyIds, status \in StudyStatuses \cup {""} :
        /\ IF StudyExists(study_id) /\ status # ""
           THEN study_status' = update_study_status(status)
           ELSE study_status' = study_status
        /\ study_last' = Answer("update_study", study_id,
                                IF StudyExists(study_id) THEN 200 ELSE 404)
        /\ UNCHANGED <<study_samples, study_assignments>>
        /\ StudyFrame

\* activate_study, lines 149-181.
ActivateStudy ==
    \E study_id \in StudyIds :
        LET code == IF ~StudyExists(study_id) THEN 404
                    ELSE IF study_status # "draft" THEN 400
                    ELSE IF study_samples = << >> THEN 400
                    ELSE IF study_assignments = {} THEN 400
                    ELSE 200
        IN  /\ study_status' = IF code = 200 THEN update_study_status("active")
                               ELSE study_status
            /\ study_last' = Answer("activate_study", study_id, code)
            /\ UNCHANGED <<study_samples, study_assignments>>
            /\ StudyFrame

\* pause_study, lines 184-200.
PauseStudy ==
    \E study_id \in StudyIds :
        LET code == IF ~StudyExists(study_id) THEN 404
                    ELSE IF study_status # "active" THEN 400
                    ELSE 200
        IN  /\ study_status' = IF code = 200 THEN update_study_status("paused")
                               ELSE study_status
            /\ study_last' = Answer("pause_study", study_id, code)
            /\ UNCHANGED <<study_samples, study_assignments>>
            /\ StudyFrame

\* resume_study, lines 203-219.
ResumeStudy ==
    \E study_id \in StudyIds :
        LET code == IF ~StudyExists(study_id) THEN 404
                    ELSE IF study_status # "paused" THEN 400
                    ELSE 200
        IN  /\ study_status' = IF code = 200 THEN update_study_status("active")
                               ELSE study_status
            /\ study_last' = Answer("resume_study", study_id, code)
            /\ UNCHANGED <<study_samples, study_assignments>>
            /\ StudyFrame

\* set_study_samples, lines 234-263: a draft study's samples are replaced.
SetStudySamples ==
    \E study_id \in StudyIds, sample_ids \in SampleIdLists :
        LET code == IF ~StudyExists(study_id) THEN 404
                    ELSE IF study_status # "draft" THEN 400
                    ELSE 200
        IN  /\ study_samples' = IF code = 200
                                THEN add_samples_to_study(<< >>, sample_ids)
                                ELSE study_samples
            /\ study_last' = Answer("set_study_samples", study_id, code)
            /\ UNCHANGED <<study_status, study_assignments>>
            /\ StudyFrame

\* create_new_assignment, lines 524-569: a specialist is assigned to a draft
\* or active study once.
CreateNewAssignment ==
    \E study_id \in StudyIds, specialist_id \in Specialists :
        LET code == IF ~StudyExists(study_id) THEN 404
                    ELSE IF study_status \notin {"draft", "active"} THEN 400
                    ELSE IF specialist_id \in study_assignments THEN 400
                    ELSE 200
        IN  /\ study_assignments' = IF code = 200
                                    THEN study_assignments \cup {specialist_id}
                                    ELSE study_assignments
            /\ study_last' = Answer("create_new_assignment", study_id, code)
            /\ UNCHANGED <<study_status, study_samples>>
            /\ StudyFrame

\* delete_assignment, lines 619-643.
DeleteAssignment ==
    \E study_id \in StudyIds, specialist_id \in Specialists :
        LET code == IF ~StudyExists(study_id) THEN 404
                    ELSE IF study_status \notin {"draft", "active", "paused"} THEN 400
                    ELSE 200
        IN  /\ study_assignments' = IF code = 200
                                    THEN study_assignments \ {specialist_id}
                                    ELSE study_assignments
            /\ study_last' = Answer("delete_assignment", study_id, code)
            /\ UNCHANGED <<study_status, study_samples>>
            /\ StudyFrame

InitStudy ==
    /\ TOTAL_TAGS = MaxTotalTags
    /\ study_status = "draft"
    /\ study_samples = << >>
    /\ study_assignments = {}
    /\ study_last = NoRequest
    /\ AllocIdle
    /\ IdentIdle
    /\ DbIdle
    /\ RaceIdle
    /\ FlowIdle

NextStudy ==
    \/ UpdateStudy
    \/ ActivateStudy
    \/ PauseStudy
    \/ ResumeStudy
    \/ SetStudySamples
    \/ CreateNewAssignment
    \/ DeleteAssignment

SpecStudy == InitStudy /\ [][NextStudy]_vars

\* C30: after any sequence of admin operations (activate, pause, resume,
\* update_study, set_study_samples, create and delete assignment) a study
\* whose status is active has at least one sample and at least one specialist
\* assignment, and a study becomes active only from draft by activate_study
\* or from paused by resume_study.
C30_ActiveStudyHasSamplesAndAssignments ==
    [][ study_status' = "active"
          => /\ study_samples' # << >>
             /\ study_assignments' # {}
             /\ study_status # "active"
                   => \/ study_status = "draft" /\ study_last'.op = "activate_study"
                      \/ study_status = "paused" /\ study_last'.op = "resume_study"
      ]_vars

====
